---- MODULE Spec2Model ----
(***************************************************************************)
(* Confident learning, as written out in                                   *)
(* examples/simplifying_confident_learning_tutorial.ipynb:                 *)
(*   STEP 1  per-class thresholds, the confident joint, its calibration;   *)
(*   STEP 2  the floor adjustment, the per-class noise masks, their union, *)
(*           the prediction override and the ranking of the label errors.  *)
(*                                                                         *)
(* Arrays are functions over 0..len-1, as in the source.  A probability is *)
(* an integer p standing for p/PScale.  A threshold is the pair            *)
(* [num, den] of np.mean's sum and count, standing for num/(den*PScale);   *)
(* den = 0 is the 0/0 = NaN that np.mean returns for a class without       *)
(* examples, and every comparison with it is false.                        *)
(***************************************************************************)
EXTENDS Integers, Sequences, FiniteSets, TLC

VARIABLES K, s, psx, min_per_class, pc, thresholds, confident_joint, i,
          prune_count_matrix, k, noise_masks_per_class, label_errors_bool,
          label_errors_idx

vars == <<K, s, psx, min_per_class, pc, thresholds, confident_joint, i,
          prune_count_matrix, k, noise_masks_per_class, label_errors_bool,
          label_errors_idx>>

\* ------------------------------------------------------------- bounds
\* At most MaxN examples (two fewer with three classes).
MaxN == 4
\* min_per_class ranges over 0..MaxMin.
MaxMin == 1
\* A probability p stands for p/PScale.
PScale == 10
\* 1e-6 = 1/EpsInv, the tolerance of the threshold comparison.
EpsInv == 1000000
\* The notebook's floor.
MIN_NUM_PER_CLASS == 5

Levels3 == {1, 5, 9}
Levels2 == {1, 9}

\* ------------------------------------------------------------ helpers
RECURSIVE SumOver(_, _)
SumOver(S, f) ==
    IF S = {} THEN 0
    ELSE LET x == CHOOSE y \in S : TRUE IN f[x] + SumOver(S \ {x}, f)

Classes == 0 .. K - 1
Examples == DOMAIN psx
n == Cardinality(DOMAIN psx)

\* s == k, as the set of the indices where it holds.
WithLabel(c) == {e \in DOMAIN s : s[e] = c}
\* np.bincount(s)[c]
s_counts(c) == Cardinality(WithLabel(c))

ValidInput == \A e \in DOMAIN s : s[e] \in Classes

\* ------------------------------------------------------------- STEP 1
\* np.mean(psx[:,c][s == c]): sum over count, 0/0 for an empty class.
Mean(c) ==
    [num |-> SumOver(WithLabel(c), [e \in WithLabel(c) |-> psx[e][c]]),
     den |-> s_counts(c)]

IsNaN(t) == t.den = 0

\* Mutant: row > thresholds, the tolerance and the equality dropped.
MeetsThresholdStrict(p, t) ==
    /\ ~IsNaN(t)
    /\ p * t.den > t.num

\* Mutant: the mean of an empty class taken as 0 instead of NaN.
MeetsThresholdNaNAsZero(p, t) ==
    IF IsNaN(t) THEN p * EpsInv >= 0 - PScale
    ELSE p * t.den * EpsInv >= t.num * EpsInv - t.den * PScale

\* p >= t - 1e-6, false for a NaN threshold.
MeetsThreshold(p, t) ==
    /\ ~IsNaN(t)
    /\ p * t.den * EpsInv >= t.num * EpsInv - t.den * PScale

\* row >= thresholds - 1e-6, as the set of the True positions.
ConfidentBins(row, th) == {c \in DOMAIN row : MeetsThreshold(row[c], th[c])}

\* Mutant: the last index of the largest value.
ArgMaxLast(row) ==
    CHOOSE c \in DOMAIN row :
        /\ \A d \in DOMAIN row : row[d] <= row[c]
        /\ \A d \in DOMAIN row : d > c => row[d] < row[c]

\* np.argmax: the first index of the largest value.
ArgMax(row) ==
    CHOOSE c \in DOMAIN row :
        /\ \A d \in DOMAIN row : row[d] <= row[c]
        /\ \A d \in DOMAIN row : d < c => row[d] < row[c]

\* The column an example with a non-empty confident set is counted in.
CountedColumn(row, th) ==
    LET bins == ConfidentBins(row, th)
    IN  IF Cardinality(bins) = 1 THEN CHOOSE c \in bins : TRUE
        ELSE ArgMax(row)

\* Mutant: the example is counted in the row of its predicted class.
CountedRowPredicted(e) == ArgMax(psx[e])

\* The row an example is counted in.
CountedRow(e) == s[e]

Zeros == [r \in Classes |-> [c \in Classes |-> 0]]

ComputeThresholds ==
    /\ pc = "thresholds"
    /\ thresholds' = [c \in Classes |-> Mean(c)]
    /\ confident_joint' = Zeros
    /\ i' = 0
    /\ pc' = "count"
    /\ UNCHANGED <<K, s, psx, min_per_class, prune_count_matrix, k,
                   noise_masks_per_class, label_errors_bool, label_errors_idx>>

\* One turn of the loop over enumerate(psx).  confident_joint[s_label] with
\* s_label >= K raises IndexError.
CountExample ==
    /\ pc = "count"
    /\ LET num_confident_bins == Cardinality(ConfidentBins(psx[i], thresholds))
           r == CountedRow(i)
       IN  IF num_confident_bins = 0
           THEN /\ confident_joint' = confident_joint
                /\ i' = i + 1
                /\ pc' = IF i + 1 = n THEN "calibrate" ELSE "count"
           ELSE IF r \notin Classes
           THEN /\ pc' = "error"
                /\ UNCHANGED <<confident_joint, i>>
           ELSE /\ confident_joint' =
                     [confident_joint EXCEPT
                        ![r][CountedColumn(psx[i], thresholds)] = @ + 1]
                /\ i' = i + 1
                /\ pc' = IF i + 1 = n THEN "calibrate" ELSE "count"
    /\ UNCHANGED <<K, s, psx, min_per_class, thresholds, prune_count_matrix, k,
                   noise_masks_per_class, label_errors_bool, label_errors_idx>>

\* cleanlab.latent_estimation.calibrate_confident_joint: every row with a
\* nonzero sum is scaled by count(labels == row) / rowsum and rounded by
\* largest remainder, the residual of the row going to its cells with the
\* largest fractional parts, lowest column first; a zero row stays zero.
CalibrateRow(row, cnt) ==
    LET R == SumOver(DOMAIN row, row)
        rem == [c \in DOMAIN row |-> (row[c] * cnt) % R]
        flo == [c \in DOMAIN row |-> (row[c] * cnt) \div R]
        residual == cnt - SumOver(DOMAIN row, flo)
        rank(c) == Cardinality({d \in DOMAIN row :
                       \/ rem[d] > rem[c]
                       \/ rem[d] = rem[c] /\ d < c})
    IN  IF R = 0 THEN row
        ELSE [c \in DOMAIN row |->
                 flo[c] + (IF rank(c) < residual THEN 1 ELSE 0)]

calibrate_confident_joint(cj) ==
    [r \in DOMAIN cj |-> CalibrateRow(cj[r], s_counts(r))]

\* The call of lines 165-167.  A label outside [0, K) that the counting loop
\* let pass (its example had an empty confident set) is refused here, the
\* estimator's InvalidInput.
Calibrate ==
    /\ pc = "calibrate"
    /\ IF ValidInput
       THEN /\ confident_joint' = calibrate_confident_joint(confident_joint)
            /\ pc' = "floor"
       ELSE /\ pc' = "error"
            /\ UNCHANGED confident_joint
    /\ UNCHANGED <<K, s, psx, min_per_class, thresholds, i, prune_count_matrix,
                   k, noise_masks_per_class, label_errors_bool,
                   label_errors_idx>>

\* ------------------------------------------------------------- STEP 2
Transpose(m) == [r \in DOMAIN m |-> [c \in DOMAIN m |-> m[c][r]]]

\* cleanlab.pruning.keep_at_least_n_per_class on the transposed joint,
\* indexed [true][observed].  For a class c observed more than floor times
\* whose diagonal is below floor, the prune counts of the examples observed
\* as c (the off-diagonal entries m[j][c]) are reduced, the largest first,
\* and moved onto the diagonal until it reaches floor.
RECURSIVE ReduceObserved(_, _, _)
ReduceObserved(m, c, floor) ==
    LET off == {j \in DOMAIN m : j # c /\ m[j][c] > 0}
        big == CHOOSE j \in off :
                   /\ \A d \in off : m[d][c] <= m[j][c]
                   /\ \A d \in off : d < j => m[d][c] < m[j][c]
    IN  IF m[c][c] >= floor \/ off = {} THEN m
        ELSE ReduceObserved(
                 [m EXCEPT ![big][c] = @ - 1, ![c][c] = @ + 1], c, floor)

RECURSIVE FloorFrom(_, _, _)
FloorFrom(m, c, floor) ==
    IF c \notin DOMAIN m THEN m
    ELSE FloorFrom(
             IF s_counts(c) > floor THEN ReduceObserved(m, c, floor) ELSE m,
             c + 1, floor)

keep_at_least_n_per_class(m, floor) == FloorFrom(m, 0, floor)

KeepAtLeast ==
    /\ pc = "floor"
    /\ prune_count_matrix' =
           keep_at_least_n_per_class(Transpose(confident_joint), min_per_class)
    /\ k' = 0
    /\ noise_masks_per_class' = <<>>
    /\ pc' = "masks"
    /\ UNCHANGED <<K, s, psx, min_per_class, thresholds, confident_joint, i,
                   label_errors_bool, label_errors_idx>>

\* Mutant: the margin with its operands swapped.
PruneMarginSwapped(e, c, j) == psx[e][j] - psx[e][c]

\* psx[:, c] - psx[:, j] at example e.
PruneMargin(e, c, j) == psx[e][c] - psx[e][j]

\* Mutant: np.partition without the negations, the m'th smallest margin.
KthSmallest(c, j, m) ==
    CHOOSE v \in {psx[e][c] - psx[e][j] : e \in WithLabel(j)} :
        /\ Cardinality({e \in WithLabel(j) : psx[e][c] - psx[e][j] < v}) < m
        /\ Cardinality({e \in WithLabel(j) : psx[e][c] - psx[e][j] <= v}) >= m

\* -np.partition(-margin[s_filter], m - 1)[m - 1]: the m'th largest margin
\* among the examples with noisy label j.
KthLargest(c, j, m) ==
    CHOOSE v \in {PruneMargin(e, c, j) : e \in WithLabel(j)} :
        /\ Cardinality({e \in WithLabel(j) : PruneMargin(e, c, j) > v}) < m
        /\ Cardinality({e \in WithLabel(j) : PruneMargin(e, c, j) >= v}) >= m

\* s_filter & (margin >= threshold)
Selected(c, j, m) ==
    {e \in WithLabel(j) : PruneMargin(e, c, j) >= KthLargest(c, j, m)}

\* Mutant: >= in place of >.
PrunedClassAtLeast(cnt, floor) == cnt >= floor

\* if s_counts[k] > MIN_NUM_PER_CLASS
PrunedClass(cnt, floor) == cnt > floor

\* The (true class, noisy label) pairs the inner loop prunes for.
PrunePairs(c) ==
    {j \in Classes : j # c /\ prune_count_matrix[c][j] > 0}

\* np.partition raises when kth is out of bounds.
PartitionFails(c) ==
    \E j \in PrunePairs(c) : prune_count_matrix[c][j] > s_counts(j)

NoiseMaskOf(c) ==
    IF PrunedClass(s_counts(c), min_per_class)
    THEN UNION {Selected(c, j, prune_count_matrix[c][j]) : j \in PrunePairs(c)}
    ELSE {}

\* One turn of the loop over the true classes.
NoiseMask ==
    /\ pc = "masks"
    /\ IF PrunedClass(s_counts(k), min_per_class) /\ PartitionFails(k)
       THEN /\ pc' = "error"
            /\ UNCHANGED <<k, noise_masks_per_class>>
       ELSE /\ noise_masks_per_class' =
                   [c \in 0 .. k |->
                       IF c = k THEN NoiseMaskOf(k)
                       ELSE noise_masks_per_class[c]]
            /\ k' = k + 1
            /\ pc' = IF k + 1 = K THEN "union" ELSE "masks"
    /\ UNCHANGED <<K, s, psx, min_per_class, thresholds, confident_joint, i,
                   prune_count_matrix, label_errors_bool, label_errors_idx>>

\* np.stack(noise_masks_per_class).any(axis=0)
UnionMasks ==
    /\ pc = "union"
    /\ label_errors_bool' =
           UNION {noise_masks_per_class[c] : c \in DOMAIN noise_masks_per_class}
    /\ pc' = "override"
    /\ UNCHANGED <<K, s, psx, min_per_class, thresholds, confident_joint, i,
                   prune_count_matrix, k, noise_masks_per_class,
                   label_errors_idx>>

\* pred_label == s[i]
Agrees(e) == ArgMax(psx[e]) = s[e]

\* Remove label errors if given label == model prediction.
Override ==
    /\ pc = "override"
    /\ label_errors_bool' = {e \in label_errors_bool : ~Agrees(e)}
    /\ pc' = "rank"
    /\ UNCHANGED <<K, s, psx, min_per_class, thresholds, confident_joint, i,
                   prune_count_matrix, k, noise_masks_per_class,
                   label_errors_idx>>

RowMax(row) == row[ArgMax(row)]

\* Mutant: the ranking by self confidence alone.
RankSelfConfidence(e) == psx[e][s[e]]

\* self_confidence - psx[label_errors_bool].max(axis=1)
RankMargin(e) == psx[e][s[e]] - RowMax(psx[e])

\* label_errors_idx[np.argsort(margin)]: the orders argsort may return, the
\* order among equal margins being the sort's own.
RECURSIVE ArgSorts(_)
ArgSorts(S) ==
    IF S = {} THEN {<<>>}
    ELSE UNION {{<<e>> \o q : q \in ArgSorts(S \ {e})} :
                 e \in {f \in S : \A g \in S : RankMargin(f) <= RankMargin(g)}}

Rank ==
    /\ pc = "rank"
    /\ label_errors_idx' \in ArgSorts(label_errors_bool)
    /\ pc' = "done"
    /\ UNCHANGED <<K, s, psx, min_per_class, thresholds, confident_joint, i,
                   prune_count_matrix, k, noise_masks_per_class,
                   label_errors_bool>>

\* ------------------------------------------------------------- inputs
\* An example is <<label, row>>.  The estimates depend on the examples as a
\* bag, so the inputs are enumerated in one order per bag.
RowCode(row) ==
    IF Cardinality(DOMAIN row) = 2 THEN row[0] * 10 + row[1]
    ELSE row[0] * 100 + row[1] * 10 + row[2]

Code(ex) == ex[1] * 1000 + RowCode(ex[2])

Types(kk, L, labels) == {<<l, r>> : l \in labels, r \in [0 .. kk - 1 -> L]}

RECURSIVE Datasets(_, _)
Datasets(T, len) ==
    IF len = 0 THEN {<<>>}
    ELSE UNION {{Append(q, t) :
                    t \in {u \in T : len = 1 \/ Code(q[len - 1]) <= Code(u)}} :
                 q \in Datasets(T, len - 1)}

\* The state before STEP 1 runs on the examples q with kk classes.
Start(kk, q, m) ==
    /\ K = kk
    /\ s = [e \in 0 .. Len(q) - 1 |-> q[e + 1][1]]
    /\ psx = [e \in 0 .. Len(q) - 1 |-> q[e + 1][2]]
    /\ min_per_class = m
    /\ pc = "thresholds"
    /\ thresholds = <<>>
    /\ confident_joint = <<>>
    /\ i = 0
    /\ prune_count_matrix = <<>>
    /\ k = 0
    /\ noise_masks_per_class = <<>>
    /\ label_errors_bool = {}
    /\ label_errors_idx = <<>>

\* Valid inputs: two classes over three probability levels, or three classes
\* over two levels.
Init ==
    \E m \in 0 .. MaxMin :
        \/ \E len \in 1 .. MaxN :
               \E q \in Datasets(Types(2, Levels3, 0 .. 1), len) : Start(2, q, m)
        \/ \E len \in 1 .. MaxN - 2 :
               \E q \in Datasets(Types(3, Levels2, 0 .. 2), len) : Start(3, q, m)

\* The concrete scenario: ten examples, two classes, the first five labelled 0
\* and the last five labelled 1, every row 0.9 on its label and 0.1 off it,
\* but for example 4; its row and min_per_class range around the scenario's.
ScenarioRow(e, row4) ==
    IF e = 4 THEN row4
    ELSE IF e < 4 THEN (0 :> 9 @@ 1 :> 1)
    ELSE (0 :> 1 @@ 1 :> 9)

InitScenario ==
    \E m \in 0 .. MIN_NUM_PER_CLASS :
        \E row4 \in [0 .. 1 -> Levels3] :
            Start(2,
                  [p \in 1 .. 10 |->
                      <<IF p <= 5 THEN 0 ELSE 1, ScenarioRow(p - 1, row4)>>],
                  m)

\* Inputs whose labels may lie outside [0, K): two classes, labels 0..2.
InitInvalid ==
    \E m \in 0 .. MaxMin :
        \E len \in 1 .. MaxN - 1 :
            \E q \in Datasets(Types(2, Levels2, 0 .. 2), len) : Start(2, q, m)

Next ==
    \/ ComputeThresholds
    \/ CountExample
    \/ Calibrate
    \/ KeepAtLeast
    \/ NoiseMask
    \/ UnionMasks
    \/ Override
    \/ Rank

Spec == Init /\ [][Next]_vars
SpecScenario == InitScenario /\ [][Next]_vars
SpecInvalid == InitInvalid /\ [][Next]_vars

\* ------------------------------------------------- notions of the claims
\* The statements below use their own readings of the spec's terms, not the
\* operators of the pipeline above.
Count(c) == Cardinality({e \in DOMAIN s : s[e] = c})
LargestOf(e) ==
    CHOOSE v \in {psx[e][c] : c \in DOMAIN psx[e]} :
        \A c \in DOMAIN psx[e] : psx[e][c] <= v
Margin(e) == psx[e][s[e]] - LargestOf(e)
Flagged == {label_errors_idx[p] : p \in DOMAIN label_errors_idx}
Calibrated == pc \in {"floor", "masks", "union", "override", "rank", "done"}
\* probs[e][c] >= threshold[c] - epsilon, with threshold[c] the mean over the
\* examples labelled c.
InConfidentSet(e, c) ==
    /\ Count(c) > 0
    /\ psx[e][c] * Count(c) * EpsInv >=
           SumOver({f \in DOMAIN s : s[f] = c},
                   [f \in DOMAIN s |-> psx[f][c]]) * EpsInv - Count(c) * PScale
ConfidentSet(e) == {c \in Classes : InConfidentSet(e, c)}
ColumnSum(m, c) == SumOver(DOMAIN m, [r \in DOMAIN m |-> m[r][c]])
RowSum(m, r) == SumOver(DOMAIN m[r], m[r])
Total(m) == SumOver(DOMAIN m, [r \in DOMAIN m |-> RowSum(m, r)])

\* C1: for every valid input the calibrated confident joint has, in every
\* row r, a row sum equal to the number of examples observed as r, and the
\* sum of all its cells is n.
C1_RowSums ==
    (Calibrated /\ ValidInput) =>
        /\ \A r \in Classes : RowSum(confident_joint, r) = Count(r)
        /\ Total(confident_joint) = n

\* C1's case: calibration has run on a row in which two examples were
\* counted and a third was not, and has rounded the scaled row onto two
\* cells.
C1_Witness ==
    /\ pc = "floor"
    /\ \E r \in Classes :
           LET counted == {e \in Examples : s[e] = r /\ ConfidentSet(e) # {}}
           IN  /\ Cardinality(counted) >= 2
               /\ Cardinality(counted) < Count(r)
               /\ Cardinality({c \in Classes : confident_joint[r][c] > 0}) >= 2
               /\ RowSum(confident_joint, r) = Count(r)

\* C10: in the counting loop every example increments at most one cell, by
\* one, in the row of its own label; the example of a class with the largest
\* probability for that class is counted; so when the loop ends every raw
\* row sum lies between 1 and the class count for an observed class, and is
\* 0 for a class nobody carries.
C10_RawCounting ==
    [][(pc = "count" /\ ValidInput) =>
          LET changed == {rc \in Classes \X Classes :
                             confident_joint'[rc[1]][rc[2]] #
                                 confident_joint[rc[1]][rc[2]]}
          IN  /\ Cardinality(changed) <= 1
              /\ \A rc \in changed :
                     /\ rc[1] = s[i]
                     /\ confident_joint'[rc[1]][rc[2]] =
                            confident_joint[rc[1]][rc[2]] + 1
              /\ (\A e \in Examples :
                      s[e] = s[i] => psx[e][s[i]] <= psx[i][s[i]])
                     => changed # {}
              /\ pc' = "calibrate" =>
                     \A r \in Classes :
                         /\ RowSum(confident_joint', r) <= Count(r)
                         /\ Count(r) > 0 => RowSum(confident_joint', r) >= 1
      ]_vars

\* C10's case: the loop has ended and some example of an observed class was
\* left uncounted, the row still being non-empty.
C10_Witness ==
    /\ pc = "calibrate"
    /\ \E r \in Classes :
           /\ RowSum(confident_joint, r) >= 1
           /\ RowSum(confident_joint, r) < Count(r)

C9_Selection ==
    (ValidInput /\ pc \in {"masks", "union", "override", "rank", "done", "error"}) =>
        /\ pc # "error"
        /\ \A c \in Classes, j \in Classes :
               LET m == prune_count_matrix[c][j]
                   S == {e \in Examples : s[e] = j}
                   mg(e) == psx[e][c] - psx[e][j]
                   Sel == noise_masks_per_class[c] \cap S
               IN  (Count(c) > min_per_class /\ j # c /\ m > 0) =>
                       /\ m <= Cardinality(S)
                       /\ c \in DOMAIN noise_masks_per_class =>
                              /\ Sel = {e \in S :
                                     Cardinality({f \in S : mg(f) > mg(e)}) < m}
                              /\ Cardinality(Sel) >= m
                              /\ \A a \in Sel, b \in S \ Sel : mg(a) >= mg(b)
                              /\ Cardinality(Sel) > m =>
                                     \E a \in Sel, b \in Sel :
                                         /\ a # b
                                         /\ mg(a) = mg(b)
                                         /\ \A f \in Sel : mg(f) >= mg(a)

\* C9's case: a selection that took more than num2prune examples because of
\* a tie at the cutoff.
C9_Witness ==
    /\ pc = "done"
    /\ \E c \in Classes, j \in Classes :
           /\ Count(c) > min_per_class
           /\ j # c
           /\ prune_count_matrix[c][j] > 0
           /\ Cardinality(noise_masks_per_class[c] \cap {e \in Examples : s[e] = j})
                  > prune_count_matrix[c][j]

\* C6: the output holds every flagged index exactly once and is sorted by
\* ascending margin, margin[e] = probs[e][labels[e]] - max(probs[e]).
C6_Ranking ==
    pc = "done" =>
        /\ \A a \in DOMAIN label_errors_idx, b \in DOMAIN label_errors_idx :
               a # b => label_errors_idx[a] # label_errors_idx[b]
        /\ Flagged = label_errors_bool
        /\ \A a \in DOMAIN label_errors_idx, b \in DOMAIN label_errors_idx :
               a < b => Margin(label_errors_idx[a]) <= Margin(label_errors_idx[b])

\* C6's case: two flagged examples that the ranking had to reorder.
C6_Witness ==
    /\ pc = "done"
    /\ \E a \in DOMAIN label_errors_idx, b \in DOMAIN label_errors_idx :
           /\ a < b
           /\ label_errors_idx[a] > label_errors_idx[b]
           /\ Margin(label_errors_idx[a]) < Margin(label_errors_idx[b])

\* C4 (as amended): if in every row the first largest probability is at the
\* example's label, the flagged sequence is empty.
C4_Agreement ==
    (/\ pc \in {"rank", "done"}
     /\ \A e \in Examples : \A c \in Classes :
            /\ psx[e][c] <= psx[e][s[e]]
            /\ c < s[e] => psx[e][c] < psx[e][s[e]])
        => /\ label_errors_bool = {}
           /\ label_errors_idx = <<>>

\* C4's case: under that agreement the per-class selection had flagged an
\* example, and the override removed it.
C4_Witness ==
    /\ pc = "done"
    /\ \A e \in Examples : \A c \in Classes :
           /\ psx[e][c] <= psx[e][s[e]]
           /\ c < s[e] => psx[e][c] < psx[e][s[e]]
    /\ \E c \in Classes : noise_masks_per_class[c] # {}
    /\ label_errors_idx = <<>>

\* C4 as stated: if every row has its maximum at the example's label, the
\* flagged sequence is empty.
C4_Original ==
    (/\ pc = "done"
     /\ \A e \in Examples : psx[e][s[e]] = LargestOf(e))
        => label_errors_idx = <<>>

C2_Floor ==
    pc = "done" =>
        \A c \in Classes :
            Count(c) > min_per_class =>
                Cardinality({e \in Examples : s[e] = c} \ Flagged)
                    >= min_per_class

\* The scenario's inputs as the claim gives them.
IsScenario ==
    /\ K = 2
    /\ DOMAIN s = 0 .. 9
    /\ \A e \in 0 .. 9 : s[e] = (IF e <= 4 THEN 0 ELSE 1)
    /\ \A e \in 0 .. 9 :
           psx[e] = (IF e <= 3 THEN (0 :> 9 @@ 1 :> 1) ELSE (0 :> 1 @@ 1 :> 9))

\* C5 (as amended): on the scenario, with the default min_per_class = 5, the
\* flagged sequence is empty, both classes being observed exactly 5 times;
\* it is [4] for every min_per_class below 5.
C5_Scenario ==
    (IsScenario /\ pc = "done") =>
        /\ min_per_class = MIN_NUM_PER_CLASS => label_errors_idx = <<>>
        /\ min_per_class < MIN_NUM_PER_CLASS => label_errors_idx = <<4>>

\* C5's case: the scenario has run to its end under the default
\* configuration, example 4 counted in joint[0][1].
C5_Witness ==
    /\ IsScenario
    /\ pc = "done"
    /\ min_per_class = MIN_NUM_PER_CLASS
    /\ confident_joint = (0 :> (0 :> 4 @@ 1 :> 1) @@ 1 :> (0 :> 0 @@ 1 :> 5))
    /\ label_errors_idx = <<>>

\* C5 as stated: on the scenario, with the default min_per_class = 5, the
\* flagged sequence is [4].
C5_Original ==
    (IsScenario /\ pc = "done" /\ min_per_class = MIN_NUM_PER_CLASS) =>
        label_errors_idx = <<4>>

====
